---- MODULE Spec2Model ----
(***************************************************************************)
(* A model of python-spreadsheet (src/src/spreadsheet/classes.py and       *)
(* format.py): the cell-address codec, the Cell / Selection / Spreadsheet  *)
(* classes and the text rendering.                                         *)
(*                                                                         *)
(* Python strings are sequences of code points (ord values), so that       *)
(* ord(), str.upper(), str.split(), str.replace(), int() and str() are     *)
(* modelled by what they do to the characters.                             *)
(***************************************************************************)
EXTENDS Integers, Sequences, FiniteSets, TLC

VARIABLES
    input,      \* codec: the argument drawn for the codec functions
    enc,        \* codec: what the encoder returned (a Result), Unset before
    dec,        \* codec: what the decoder returned (a Result), Unset before
    cells,      \* Spreadsheet.cells: the dict, as its (key, Cell object) items in insertion order
    heap,       \* the live Cell objects: object identity |-> the Cell's attributes
    held,       \* the Cell object the caller holds a reference to (0: none)
    ret,        \* the last call on the sheet: its name, arguments and Result
    hist        \* the last reads of Cell.value and writes of stored values, in order

vars == <<input, enc, dec, cells, heap, held, ret, hist>>
codec_vars == <<input, enc, dec>>
sheet_vars == <<cells, heap, held, ret, hist>>

\* What a call produces: a returned value, or the exception it raised.
Ok(v) == [exc |-> "", val |-> v]
Raise(e) == [exc |-> e, val |-> <<>>]
Unset == [exc |-> "unset", val |-> <<>>]
IsOk(r) == r.exc = ""

\* F applied to the value of e: a Python call evaluates its argument once,
\* before the body runs
Eval(F(_), e) == CHOOSE r \in {F(x) : x \in {e}} : TRUE

(***************************** bounds ***************************************)
MaxNum == 705        \* column numbers fed to the encoder: MinNum..MaxNum
MaxRowNum == 11      \* row numbers of encoded positions: 0..MaxRowNum
MaxLen == 3          \* length of the texts fed to the decoder

(************************** characters **************************************)
OrdA == 65                  \* ord("A")
OrdUnderscore == 95         \* ord("_")
OrdZero == 48               \* ord("0")
OrdMinus == 45              \* ord("-")
OrdLowerA == 97             \* ord("a")
OrdSpace == 32              \* ord(" ")

\* string.ascii_uppercase, "ABCDEFGHIJKLMNOPQRSTUVWXYZ"
ascii_uppercase == [i \in 1..26 |-> OrdA + i - 1]

\* c in string.ascii_uppercase
InUppercase(c) == \E i \in 1..Len(ascii_uppercase) : ascii_uppercase[i] = c

\* str.upper() of one character (ASCII letters)
upper(c) == IF c >= OrdLowerA /\ c <= OrdLowerA + 25 THEN c - (OrdLowerA - OrdA) ELSE c

(************************** str(int), int(str) ******************************)
RECURSIVE DigitsOf(_)
DigitsOf(n) ==
    IF n < 10 THEN <<OrdZero + n>>
    ELSE DigitsOf(n \div 10) \o <<OrdZero + (n % 10)>>

\* str(n) of an int, as the f-string of format_cell_id formats it
IntToStr(n) == IF n < 0 THEN <<OrdMinus>> \o DigitsOf(0 - n) ELSE DigitsOf(n)

IsDigit(c) == c >= OrdZero /\ c <= OrdZero + 9

RECURSIVE DigitsValue(_, _)
DigitsValue(s, acc) ==
    IF s = <<>> THEN acc
    ELSE DigitsValue(Tail(s), acc * 10 + (Head(s) - OrdZero))

\* int(s): a decimal literal with an optional sign; anything else raises ValueError
ParseInt(s) ==
    LET body == IF s # <<>> /\ Head(s) = OrdMinus THEN Tail(s) ELSE s
    IN  IF body = <<>> \/ \E i \in 1..Len(body) : ~IsDigit(body[i])
        THEN Raise("ValueError")
        ELSE IF s # <<>> /\ Head(s) = OrdMinus
             THEN Ok(0 - DigitsValue(body, 0))
             ELSE Ok(DigitsValue(body, 0))

\* s.split(sep) for a one-character separator: the list of pieces
RECURSIVE SplitLoop(_, _, _, _)
SplitLoop(s, sep, piece, pieces) ==
    IF s = <<>> THEN Append(pieces, piece)
    ELSE IF Head(s) = sep
         THEN SplitLoop(Tail(s), sep, <<>>, Append(pieces, piece))
         ELSE SplitLoop(Tail(s), sep, Append(piece, Head(s)), pieces)

Split(s, sep) == SplitLoop(s, sep, <<>>, <<>>)

(************************** the address codec *******************************)
\* the while loop of column_id_from_number: divmod(id - 1, 26), prepend the letter
RECURSIVE ColumnIdLoop(_, _)
ColumnIdLoop(id, string_id) ==
    IF id > 0
    THEN ColumnIdLoop((id - 1) \div Len(ascii_uppercase),
                      <<ascii_uppercase[((id - 1) % Len(ascii_uppercase)) + 1]>> \o string_id)
    ELSE string_id

\* mutant: standard base 26, divmod(id, 26), no shift to the zero-less digits
RECURSIVE ColumnIdLoopNoShift(_, _)
ColumnIdLoopNoShift(id, string_id) ==
    IF id > 0
    THEN ColumnIdLoopNoShift(id \div Len(ascii_uppercase),
                      <<ascii_uppercase[(id % Len(ascii_uppercase)) + 1]>> \o string_id)
    ELSE string_id

column_id_from_number_noshift(id) == ColumnIdLoopNoShift(id, <<>>)

column_id_from_number(id) == ColumnIdLoop(id, <<>>)

\* the for loop of number_from_column_id
RECURSIVE NumberLoop(_, _)
NumberLoop(column_id, num) ==
    IF column_id = <<>> THEN num
    ELSE LET c == Head(column_id)
         IN  IF InUppercase(c)
             THEN NumberLoop(Tail(column_id),
                             num * Len(ascii_uppercase) + (upper(c) - OrdA) + 1)
             ELSE NumberLoop(Tail(column_id), num)

\* mutant: the letter index without the + 1 of the zero-less digits
RECURSIVE NumberLoopNoPlusOne(_, _)
NumberLoopNoPlusOne(column_id, num) ==
    IF column_id = <<>> THEN num
    ELSE LET c == Head(column_id)
         IN  IF InUppercase(c)
             THEN NumberLoopNoPlusOne(Tail(column_id),
                             num * Len(ascii_uppercase) + (upper(c) - OrdA))
             ELSE NumberLoopNoPlusOne(Tail(column_id), num)

number_from_column_id_noplusone(column_id) == NumberLoopNoPlusOne(column_id, 0)

number_from_column_id(column_id) == NumberLoop(column_id, 0)

format_cell_id(row_id, column_id) == IntToStr(row_id) \o <<OrdUnderscore>> \o column_id

row_number_from_cell_id(cell_id) == ParseInt(Split(cell_id, OrdUnderscore)[1])

\* cell_id.split("_")[1] raises IndexError when the id holds no "_"
column_number_from_cell_id(cell_id) ==
    LET parts == Split(cell_id, OrdUnderscore)
    IN  IF Len(parts) < 2 THEN Raise("IndexError") ELSE Ok(number_from_column_id(parts[2]))

\* the tuple's elements are evaluated left to right: the row's exception comes first
position_from_cell_id(cell_id) ==
    LET row == row_number_from_cell_id(cell_id)
        column == column_number_from_cell_id(cell_id)
    IN  IF ~IsOk(row) THEN row
        ELSE IF ~IsOk(column) THEN column
        ELSE Ok(<<row.val, column.val>>)

cell_id_from_position(position) ==
    format_cell_id(position[1], column_id_from_number(position[2]))

(************************** bounds of the sheet ******************************)
MaxRows == 2         \* rows of the grids passed to fill: 1..MaxRows
MaxCols == 2         \* columns of the grids passed to fill: 1..MaxCols
MaxCoord == 2        \* coordinates of looked-up positions and selection bounds: 0..MaxCoord
MaxDepth == 3        \* nested evaluations of deferred values before RecursionError
MaxEvents == 3       \* reads and writes kept in hist

(************************** values and Cell objects **************************)
\* T_cell_value: a str, an int, None, or a callable taking the cell
StrValue(s) == [kind |-> "str", s |-> s, n |-> 0, fn |-> ""]
IntValue(n) == [kind |-> "int", s |-> <<>>, n |-> n, fn |-> ""]
NoneValue == [kind |-> "none", s |-> <<>>, n |-> 0, fn |-> ""]
CallableValue(fn) == [kind |-> "callable", s |-> <<>>, n |-> 0, fn |-> fn]

\* Cell.__init__: format_fn is always the default format_noop in this model
NewCell(value, render_fn, alignment) ==
    [_value |-> value, render_fn |-> render_fn, alignment |-> alignment]

\* Cell(None, self), the default of Spreadsheet.__getitem__
Placeholder == NewCell(NoneValue, "render_noop", "left")

\* a dict in insertion order: a sequence of items [id, cell]
HasKey(d, k) == \E i \in 1..Len(d) : d[i].id = k
IndexOf(d, k) == CHOOSE i \in 1..Len(d) : d[i].id = k
DictGet(d, k) == d[IndexOf(d, k)].cell
DictSet(d, k, c) ==
    IF HasKey(d, k) THEN [d EXCEPT ![IndexOf(d, k)].cell = c]
    ELSE Append(d, [id |-> k, cell |-> c])
Stored(d) == {d[i].cell : i \in 1..Len(d)}

\* object identities: a new object differs from every live one, and the k-th
\* object made during a call from those made before it
FreeIdAt(h, k) ==
    CHOOSE n \in 1..(Cardinality(DOMAIN h) + k) :
        n \notin DOMAIN h /\ Cardinality({m \in 1..n : m \notin DOMAIN h}) = k
FreeId(h) == FreeIdAt(h, 1)
Put(h, id, obj) == [x \in DOMAIN h \cup {id} |-> IF x = id THEN obj ELSE h[x]]
\* the objects still referenced: those the dict stores and those the caller holds
Collect(h, d, roots) == [x \in DOMAIN h \cap (Stored(d) \cup roots) |-> h[x]]
EmptyHeap == [x \in {} |-> Placeholder]

\* A lookup is computed as a reference: a stored object, or 0 for the
\* Cell(None, self) that __getitem__ constructs; Alloc gives each such
\* construction its own new object, in the order of the lookups.
Alloc(refs, h) ==
    LET made(i) == Cardinality({j \in 1..i : refs[j] = 0})
        new == {FreeIdAt(h, k) : k \in 1..made(Len(refs))}
    IN  [refs |-> [i \in 1..Len(refs) |->
                     IF refs[i] = 0 THEN FreeIdAt(h, made(i)) ELSE refs[i]],
         heap |-> [x \in DOMAIN h \cup new |-> IF x \in DOMAIN h THEN h[x] ELSE Placeholder]]

Obj(c) == IF c = 0 THEN Placeholder ELSE heap[c]

(************************** Spreadsheet lookups ******************************)
\* self.cells.get(cell_id, Cell(None, self)): the reference returned
Spreadsheet_getitem(cell_id) ==
    IF HasKey(cells, cell_id) THEN DictGet(cells, cell_id) ELSE 0

\* mutant: a defaultdict-like lookup that stores the default it returns
cells_after_getitem_inserting(d, cell_id, cell) ==
    IF HasKey(d, cell_id) THEN d ELSE DictSet(d, cell_id, cell)

\* self.cells after self[cell_id] returned cell: dict.get never inserts its default
cells_after_getitem(d, cell_id, cell) == d

RECURSIVE cells_after_lookups(_, _, _)
cells_after_lookups(d, ids, returned) ==
    IF ids = <<>> THEN d
    ELSE cells_after_lookups(cells_after_getitem(d, Head(ids), Head(returned)),
                             Tail(ids), Tail(returned))

Spreadsheet_get_cell_at_position(position) ==
    IF position[1] < 0 THEN Raise("Exception: Out of bounds for x")
    ELSE IF position[2] < 0 THEN Raise("Exception: Out of bounds for y")
    ELSE Ok(Spreadsheet_getitem(cell_id_from_position(position)))

(************************** Cell *********************************************)
format_noop(value) ==
    IF value.kind = "none" THEN <<>>
    ELSE IF value.kind = "int" THEN IntToStr(value.n)
    ELSE value.s

EscapeRed == <<27, 91, 57, 49, 109>>       \* "\033[91m"
EscapeReset == <<27, 91, 48, 48, 109>>     \* "\033[00m"
format_color_red(string) == EscapeRed \o string \o EscapeReset

RECURSIVE Cell_value(_, _)
RECURSIVE Cell_str(_, _)
RECURSIVE Spreadsheet_get_cell_id(_, _)
RECURSIVE Cell_get_position(_, _)
RECURSIVE Cell_get_relative_neighbour(_, _, _)
RECURSIVE neighbour_value(_, _)

\* the identity scan; the message of the exception formats the cell, which
\* evaluates str(cell) and with it the cell's value
Spreadsheet_get_cell_id(cell, fuel) ==
    IF \E i \in 1..Len(cells) : cells[i].cell = cell
    THEN Ok(cells[CHOOSE i \in 1..Len(cells) :
                    /\ cells[i].cell = cell
                    /\ \A j \in 1..(i - 1) : cells[j].cell # cell].id)
    ELSE LET text == Cell_str(cell, fuel)
         IN  IF IsOk(text) THEN Raise("Exception: Unable to find cell") ELSE text

Cell_get_position(cell, fuel) ==
    LET cell_id == Spreadsheet_get_cell_id(cell, fuel)
    IN  IF IsOk(cell_id) THEN position_from_cell_id(cell_id.val) ELSE cell_id

Cell_get_relative_neighbour(cell, offset, fuel) ==
    LET position == Cell_get_position(cell, fuel)
    IN  IF IsOk(position)
        THEN Spreadsheet_get_cell_at_position(
                 <<position.val[1] + offset[1], position.val[2] + offset[2]>>)
        ELSE position

\* a deferred value: lambda cell: cell.get_relative_neighbour((0, 1)).value
neighbour_value(cell, fuel) ==
    LET neighbour == Cell_get_relative_neighbour(cell, <<0, 1>>, fuel)
    IN  IF IsOk(neighbour) THEN Cell_value(neighbour.val, fuel) ELSE neighbour

\* mutant: a memoised value, the result of the cell's last read in hist
Cell_value_cached(cell, fuel) ==
    IF \E i \in 1..Len(hist) : hist[i].op = "value" /\ hist[i].cell = cell
    THEN LET last == CHOOSE i \in 1..Len(hist) :
                         /\ hist[i].op = "value" /\ hist[i].cell = cell
                         /\ \A j \in (i + 1)..Len(hist) :
                                ~(hist[j].op = "value" /\ hist[j].cell = cell)
         IN  hist[last].result
    ELSE LET v == Obj(cell)._value
         IN  IF v.kind = "callable"
             THEN IF fuel = 0 THEN Raise("RecursionError")
                  ELSE neighbour_value(cell, fuel - 1)
             ELSE Ok(v)

\* the property Cell.value; each call of a deferred value is one more frame
Cell_value(cell, fuel) ==
    LET v == Obj(cell)._value
    IN  IF v.kind \in {"str", "int"} THEN Ok(v)
        ELSE IF v.kind = "callable"
             THEN IF fuel = 0 THEN Raise("RecursionError")
                  ELSE neighbour_value(cell, fuel - 1)
             ELSE Ok(v)

\* Cell.__str__
Cell_str(cell, fuel) ==
    LET v == Cell_value(cell, fuel)
    IN  IF IsOk(v) THEN Ok(format_noop(v.val)) ELSE v

highlight(cell, value, fuel) ==
    LET frame_average_cell == Cell_get_relative_neighbour(cell, <<0, 1>>, fuel)
    IN  IF ~IsOk(frame_average_cell) THEN frame_average_cell
        ELSE LET v == Cell_value(frame_average_cell.val, fuel)
             IN  IF ~IsOk(v) THEN v
                 ELSE IF v.val.kind = "int" /\ v.val.n > 40
                      THEN Ok(format_color_red(value))
                      ELSE Ok(value)

render_noop(cell, value) == Ok(value)

Cell_render(cell, fuel) ==
    LET text == Cell_str(cell, fuel)
    IN  IF ~IsOk(text) THEN text
        ELSE IF Obj(cell).render_fn = "highlight" THEN highlight(cell, text.val, fuel)
        ELSE render_noop(cell, text.val)

(************************** Selection ****************************************)
\* Selection.__init__; an argument left out (None) is <<>>, falsy like None
Selection_init(start, stop, bounds) ==
    LET from_pair == IF start # <<>> /\ stop # <<>> THEN <<<<start, stop>>>> ELSE <<>>
    IN  [bounds |-> IF bounds # <<>> THEN bounds ELSE from_pair]

\* Selection.__add__
Selection_add(self, other) == Selection_init(<<>>, <<>>, self.bounds \o other.bounds)

(************************** shape, rows, columns *****************************)
SetMax(S) == CHOOSE m \in S : \A x \in S : x <= m

\* the first exception of a list of Results, in order, or the list of values
AllOk(results) ==
    Eval(LAMBDA rs :
            IF \E i \in 1..Len(rs) : ~IsOk(rs[i])
            THEN rs[CHOOSE i \in 1..Len(rs) :
                        ~IsOk(rs[i]) /\ \A j \in 1..(i - 1) : IsOk(rs[j])]
            ELSE Ok([i \in 1..Len(rs) |-> rs[i].val]),
         results)

\* max() of a list: ValueError on the empty list
ListMax(values) ==
    IF Len(values) = 0 THEN Raise("ValueError")
    ELSE Ok(SetMax({values[i] : i \in 1..Len(values)}))

Spreadsheet_get_num_rows ==
    LET numbers == AllOk([i \in 1..Len(cells) |-> row_number_from_cell_id(cells[i].id)])
    IN  IF ~IsOk(numbers) THEN numbers
        ELSE LET most == ListMax(numbers.val)
             IN  IF IsOk(most) THEN Ok(most.val + 1) ELSE most

\* mutant: the count without the + 1 that turns the largest index into a count
Spreadsheet_get_num_columns_nosucc ==
    LET numbers == AllOk([i \in 1..Len(cells) |-> column_number_from_cell_id(cells[i].id)])
    IN  IF ~IsOk(numbers) THEN numbers
        ELSE LET most == ListMax(numbers.val)
             IN  IF IsOk(most) THEN Ok(most.val) ELSE most

Spreadsheet_get_num_columns ==
    LET numbers == AllOk([i \in 1..Len(cells) |-> column_number_from_cell_id(cells[i].id)])
    IN  IF ~IsOk(numbers) THEN numbers
        ELSE LET most == ListMax(numbers.val)
             IN  IF IsOk(most) THEN Ok(most.val + 1) ELSE most

Spreadsheet_get_shape ==
    LET rows == Spreadsheet_get_num_rows
        columns == Spreadsheet_get_num_columns
    IN  IF ~IsOk(rows) THEN rows
        ELSE IF ~IsOk(columns) THEN columns
        ELSE Ok(<<rows.val, columns.val>>)

\* the keys get_columns looks up: one list per column x, one key per row y
get_columns_ids ==
    LET columns == Spreadsheet_get_num_columns
        rows == Spreadsheet_get_num_rows
    IN  IF ~IsOk(columns) THEN columns
        ELSE IF ~IsOk(rows) THEN rows
        ELSE Ok([x \in 1..columns.val |-> [y \in 1..rows.val |->
                    format_cell_id(y - 1, column_id_from_number(x - 1))]])

\* the keys get_rows looks up: one list per row y, one key per column x
get_rows_ids ==
    LET rows == Spreadsheet_get_num_rows
        columns == Spreadsheet_get_num_columns
    IN  IF ~IsOk(rows) THEN rows
        ELSE IF ~IsOk(columns) THEN columns
        ELSE Ok([y \in 1..rows.val |-> [x \in 1..columns.val |->
                    format_cell_id(y - 1, column_id_from_number(x - 1))]])

LookupGrid(ids) ==
    IF ~IsOk(ids) THEN ids
    ELSE Ok([a \in 1..Len(ids.val) |-> [b \in 1..Len(ids.val[a]) |->
                Spreadsheet_getitem(ids.val[a][b])]])

Spreadsheet_get_columns == LookupGrid(get_columns_ids)

Spreadsheet_get_rows == LookupGrid(get_rows_ids)

\* max([len(str(x)) for x in column]) of one column
column_width(column) ==
    Eval(LAMBDA texts :
            IF ~IsOk(texts) THEN texts
            ELSE ListMax([y \in 1..Len(texts.val) |-> Len(texts.val[y])]),
         AllOk([y \in 1..Len(column) |-> Cell_str(column[y], MaxDepth)]))

Spreadsheet_get_column_widths ==
    Eval(LAMBDA columns :
            IF ~IsOk(columns) THEN columns
            ELSE AllOk([x \in 1..Len(columns.val) |-> column_width(columns.val[x])]),
         Spreadsheet_get_columns)

(************************** get_cells ****************************************)
\* mutant: a closed rectangle, range(start, stop + 1)
bound_positions_inclusive(bound) ==
    LET rows == IF bound[2][1] + 1 > bound[1][1] THEN bound[2][1] + 1 - bound[1][1] ELSE 0
        columns == IF bound[2][2] + 1 > bound[1][2] THEN bound[2][2] + 1 - bound[1][2] ELSE 0
    IN  [k \in 1..(rows * columns) |->
            <<bound[1][1] + ((k - 1) \div columns), bound[1][2] + ((k - 1) % columns)>>]

\* the positions the two range() loops of get_cells visit for one bound, in order
bound_positions(bound) ==
    LET rows == IF bound[2][1] > bound[1][1] THEN bound[2][1] - bound[1][1] ELSE 0
        columns == IF bound[2][2] > bound[1][2] THEN bound[2][2] - bound[1][2] ELSE 0
    IN  [k \in 1..(rows * columns) |->
            <<bound[1][1] + ((k - 1) \div columns), bound[1][2] + ((k - 1) % columns)>>]

RECURSIVE selection_positions(_)
selection_positions(bounds) ==
    IF bounds = <<>> THEN <<>>
    ELSE bound_positions(Head(bounds)) \o selection_positions(Tail(bounds))

\* the lookups of get_cells, one per visited position, up to the first exception
Spreadsheet_get_cells(selection) ==
    LET positions == selection_positions(selection.bounds)
    IN  AllOk([k \in 1..Len(positions) |-> Spreadsheet_get_cell_at_position(positions[k])])

(************************** format_align, str.replace ************************)
Spaces(n) == [i \in 1..n |-> OrdSpace]

format_align(string, width, alignment) ==
    LET alignment_padding == Spaces(IF width - Len(string) > 0 THEN width - Len(string) ELSE 0)
    IN  IF alignment = "left" THEN string \o alignment_padding
        ELSE IF alignment = "right" THEN alignment_padding \o string
        ELSE IF alignment = "center"
             THEN LET center_alignment_padding == Spaces(Len(alignment_padding) \div 2)
                      rest == Len(alignment_padding) - Len(center_alignment_padding) * 2
                  IN  center_alignment_padding \o string \o center_alignment_padding
                          \o Spaces(IF rest > 0 THEN rest ELSE 0)
             ELSE string

StartsWith(s, prefix) == Len(prefix) <= Len(s) /\ SubSeq(s, 1, Len(prefix)) = prefix

\* the scan from index i on
RECURSIVE ReplaceLoop(_, _, _, _)
ReplaceLoop(s, old, new, i) ==
    IF i > Len(s) THEN <<>>
    ELSE IF StartsWith(SubSeq(s, i, Len(s)), old)
         THEN new \o ReplaceLoop(s, old, new, i + Len(old))
         ELSE <<s[i]>> \o ReplaceLoop(s, old, new, i + 1)

RECURSIVE Interleave(_, _)
Interleave(s, new) ==
    IF s = <<>> THEN new ELSE new \o <<Head(s)>> \o Interleave(Tail(s), new)

\* s.replace(old, new): every non-overlapping occurrence, left to right; an
\* empty old matches before every character and at the end
str_replace(s, old, new) ==
    Eval(LAMBDA a : IF a[2] = <<>> THEN Interleave(a[1], a[3])
                    ELSE ReplaceLoop(a[1], a[2], a[3], 1),
         <<s, old, new>>)

(************************** render *******************************************)
\* one cell's contribution to the line
render_segment(cell, width, padding) ==
    Eval(LAMBDA text :
            IF ~IsOk(text) THEN text
            ELSE Eval(LAMBDA rendered :
                        IF ~IsOk(rendered) THEN rendered
                        ELSE Ok(str_replace(format_align(text.val, width, Obj(cell).alignment),
                                            text.val, rendered.val) \o Spaces(padding)),
                      Cell_render(cell, MaxDepth)),
         Cell_str(cell, MaxDepth))

RECURSIVE Concat(_)
Concat(strings) == IF strings = <<>> THEN <<>> ELSE Head(strings) \o Concat(Tail(strings))

\* the inner loop: zip(self.get_column_widths(), row) stops at the shorter list
render_line(row, padding) ==
    Eval(LAMBDA widths :
            IF ~IsOk(widths) THEN widths
            ELSE LET n == IF Len(widths.val) < Len(row) THEN Len(widths.val) ELSE Len(row)
                 IN  Eval(LAMBDA segments :
                             IF IsOk(segments) THEN Ok(Concat(segments.val)) ELSE segments,
                          AllOk([x \in 1..n |->
                                   render_segment(row[x], widths.val[x], padding)])),
         Spreadsheet_get_column_widths)

\* the lines printed so far, and the exception that ended the loop, if any
RECURSIVE render_rows(_, _, _)
render_rows(rows, padding, printed) ==
    IF rows = <<>> THEN Ok(printed)
    ELSE Eval(LAMBDA line :
                 IF IsOk(line)
                 THEN render_rows(Tail(rows), padding, Append(printed, line.val))
                 ELSE [exc |-> line.exc, val |-> printed],
              render_line(Head(rows), padding))

Spreadsheet_render(padding) ==
    Eval(LAMBDA rows : IF IsOk(rows) THEN render_rows(rows.val, padding, <<>>) ELSE rows,
         Spreadsheet_get_rows)

(************************** fill *********************************************)
\* column_ids_from_number(length): the ids of range(length), which starts at 0
column_ids_from_number(length) == [k \in 1..length |-> column_id_from_number(k - 1)]

\* An element of the data is a literal, stored as Cell(value, self), or a Cell
\* the caller constructed, stored as it is; either way a new object here.
Literal(value) ==
    [is_cell |-> FALSE, _value |-> value, render_fn |-> "render_noop", alignment |-> "left"]
CellElement(value, render_fn, alignment) ==
    [is_cell |-> TRUE, _value |-> value, render_fn |-> render_fn, alignment |-> alignment]

\* the assignments of one row, in order: zip(column_ids_from_number(len(row)), row)
fill_row(row_id, row) ==
    LET column_ids == column_ids_from_number(Len(row))
    IN  [k \in 1..Len(row) |->
            [id |-> format_cell_id(row_id, column_ids[k]),
             cell |-> IF row[k].is_cell
                      THEN NewCell(row[k]._value, row[k].render_fn, row[k].alignment)
                      ELSE NewCell(row[k]._value, "render_noop", "left")]]

\* the assignments of fill, in order: enumerate(data) numbers the rows from 0
fill_items(data) == Concat([r \in 1..Len(data) |-> fill_row(r - 1, data[r])])

\* self.cells[cell_id] = ..., one assignment after the other; the k-th stores object ids[k]
RECURSIVE fill_store(_, _, _, _)
fill_store(items, ids, d, k) ==
    IF k > Len(items) THEN d
    ELSE fill_store(items, ids, DictSet(d, items[k].id, ids[k]), k + 1)

fill(data, d, h) ==
    LET items == fill_items(data)
        ids == [k \in 1..Len(items) |-> FreeIdAt(h, k)]
    IN  [cells |-> fill_store(items, ids, d, 1),
         heap |-> [x \in DOMAIN h \cup {ids[k] : k \in 1..Len(items)} |->
                     IF x \in DOMAIN h THEN h[x]
                     ELSE items[CHOOSE k \in 1..Len(items) : ids[k] = x].cell]]

(************************** the sheet's operations ***************************)
\* The caller makes one call at a time: ret holds the call that returned, and
\* Return is the caller taking the result before its next call.
NoCall == [op |-> "", args |-> <<>>, pre |-> 0, exc |-> "", val |-> <<>>]
Call(op, args, result) ==
    [op |-> op, args |-> args, pre |-> Len(cells), exc |-> result.exc, val |-> result.val]

NoInput == [kind |-> "none"]

SheetInit ==
    /\ input = NoInput /\ enc = Unset /\ dec = Unset
    /\ cells = <<>>                  \* Spreadsheet.__init__
    /\ heap = EmptyHeap
    /\ held = 0
    /\ ret = NoCall
    /\ hist = <<>>

Return ==
    /\ ret.op # ""
    /\ ret' = NoCall
    /\ heap' = Collect(heap, cells, {held})
    /\ UNCHANGED <<cells, held, hist>> /\ UNCHANGED codec_vars

\* spreadsheet.fill(data)
Fill(data) ==
    LET after == fill(data, cells, Collect(heap, cells, {held}))
    IN  /\ cells' = after.cells
        /\ heap' = Collect(after.heap, after.cells, {held})
        /\ ret' = Call("fill", data, Ok(<<>>))
        /\ hist' = <<>>
        /\ UNCHANGED held /\ UNCHANGED codec_vars

\* c = Cell(value, spreadsheet), not stored in the sheet
Construct(value) ==
    LET base == Collect(heap, cells, {})
        id == FreeId(base)
    IN  /\ heap' = Put(base, id, NewCell(value, "render_noop", "left"))
        /\ held' = id
        /\ ret' = Call("Cell", value, Ok(id))
        /\ UNCHANGED <<cells, hist>> /\ UNCHANGED codec_vars

\* c = spreadsheet[cell_id]
GetItem(cell_id) ==
    LET made == Alloc(<<Spreadsheet_getitem(cell_id)>>, Collect(heap, cells, {}))
    IN  /\ heap' = made.heap
        /\ held' = made.refs[1]
        /\ cells' = cells_after_lookups(cells, <<cell_id>>, made.refs)
        /\ ret' = Call("getitem", cell_id, Ok(made.refs[1]))
        /\ UNCHANGED hist /\ UNCHANGED codec_vars

\* c = spreadsheet.get_cell_at_position(position)
GetCellAtPosition(position) ==
    LET found == Spreadsheet_get_cell_at_position(position)
        made == Alloc(<<found.val>>, Collect(heap, cells, {}))
    IN  /\ UNCHANGED hist /\ UNCHANGED codec_vars
        /\ IF IsOk(found)
           THEN /\ heap' = made.heap
                /\ held' = made.refs[1]
                /\ cells' = cells_after_lookups(cells, <<cell_id_from_position(position)>>, made.refs)
                /\ ret' = Call("get_cell_at_position", position, Ok(made.refs[1]))
           ELSE /\ heap' = Collect(heap, cells, {held})
                /\ ret' = Call("get_cell_at_position", position, found)
                /\ UNCHANGED <<cells, held>>

GetNumRows ==
    /\ ret' = Call("get_num_rows", <<>>, Spreadsheet_get_num_rows)
    /\ heap' = Collect(heap, cells, {held})
    /\ UNCHANGED <<cells, held, hist>> /\ UNCHANGED codec_vars

GetNumColumns ==
    /\ ret' = Call("get_num_columns", <<>>, Spreadsheet_get_num_columns)
    /\ heap' = Collect(heap, cells, {held})
    /\ UNCHANGED <<cells, held, hist>> /\ UNCHANGED codec_vars

GetShape ==
    /\ ret' = Call("get_shape", <<>>, Spreadsheet_get_shape)
    /\ heap' = Collect(heap, cells, {held})
    /\ UNCHANGED <<cells, held, hist>> /\ UNCHANGED codec_vars

\* a grid of lookups: every absent key gets its own new Cell
Regrid(flat, grid) ==
    [a \in 1..Len(grid) |-> [b \in 1..Len(grid[a]) |-> flat[(a - 1) * Len(grid[1]) + b]]]

GridCall(op, ids, found) ==
    LET made == Alloc(Concat(found.val), Collect(heap, cells, {held}))
    IN  /\ UNCHANGED <<held, hist>> /\ UNCHANGED codec_vars
        /\ IF IsOk(found)
           THEN /\ heap' = made.heap
                /\ cells' = cells_after_lookups(cells, Concat(ids.val), made.refs)
                /\ ret' = Call(op, <<>>, Ok(Regrid(made.refs, found.val)))
           ELSE /\ heap' = Collect(heap, cells, {held})
                /\ ret' = Call(op, <<>>, found)
                /\ UNCHANGED cells

GetRows == GridCall("get_rows", get_rows_ids, Spreadsheet_get_rows)

GetColumns == GridCall("get_columns", get_columns_ids, Spreadsheet_get_columns)

\* spreadsheet.get_cells(selection): the set holds the objects by identity
GetCells(selection) ==
    LET found == Spreadsheet_get_cells(selection)
        positions == selection_positions(selection.bounds)
        made == Alloc(found.val, Collect(heap, cells, {held}))
    IN  /\ UNCHANGED <<held, hist>> /\ UNCHANGED codec_vars
        /\ IF IsOk(found)
           THEN /\ heap' = made.heap
                /\ cells' = cells_after_lookups(cells,
                               [k \in 1..Len(positions) |-> cell_id_from_position(positions[k])],
                               made.refs)
                /\ ret' = Call("get_cells", selection.bounds,
                               Ok({made.refs[k] : k \in 1..Len(made.refs)}))
           ELSE /\ heap' = Collect(heap, cells, {held})
                /\ ret' = Call("get_cells", selection.bounds, found)
                /\ UNCHANGED cells

\* cell.get_position()
GetPosition(cell) ==
    /\ ret' = Call("get_position", cell, Cell_get_position(cell, MaxDepth))
    /\ heap' = Collect(heap, cells, {held})
    /\ UNCHANGED <<cells, held, hist>> /\ UNCHANGED codec_vars

\* c = cell.get_relative_neighbour(offset)
GetRelativeNeighbour(cell, offset) ==
    LET found == Cell_get_relative_neighbour(cell, offset, MaxDepth)
        position == Cell_get_position(cell, MaxDepth)
        made == Alloc(<<found.val>>, Collect(heap, cells, {cell}))
    IN  /\ UNCHANGED hist /\ UNCHANGED codec_vars
        /\ IF IsOk(found)
           THEN /\ heap' = made.heap
                /\ held' = made.refs[1]
                /\ cells' = cells_after_lookups(cells,
                               <<cell_id_from_position(<<position.val[1] + offset[1],
                                                         position.val[2] + offset[2]>>)>>,
                               made.refs)
                /\ ret' = Call("get_relative_neighbour", <<cell, offset>>, Ok(made.refs[1]))
           ELSE /\ heap' = Collect(heap, cells, {held})
                /\ ret' = Call("get_relative_neighbour", <<cell, offset>>, found)
                /\ UNCHANGED <<cells, held>>

Event(op, cell, key, old, new, result) ==
    [op |-> op, cell |-> cell, key |-> key, old |-> old, new |-> new, result |-> result]

\* v = cell.value
ReadValue(cell) ==
    LET result == Cell_value(cell, MaxDepth)
    IN  /\ ret' = Call("value", cell, result)
        /\ hist' = Append(hist, Event("value", cell, <<>>, NoneValue, NoneValue, result))
        /\ heap' = Collect(heap, cells, {held})
        /\ UNCHANGED <<cells, held>> /\ UNCHANGED codec_vars

\* the raw value the sheet holds under cell_id (None when the key is absent)
StoredValue(cell_id) == Obj(Spreadsheet_getitem(cell_id))._value

\* spreadsheet[cell_id] = Cell(value, spreadsheet)
SetItem(cell_id, value) ==
    LET base == Collect(heap, cells, {held})
        id == FreeId(base)
    IN  /\ cells' = DictSet(cells, cell_id, id)
        /\ heap' = Collect(Put(base, id, NewCell(value, "render_noop", "left")),
                           DictSet(cells, cell_id, id), {held})
        /\ ret' = Call("setitem", cell_id, Ok(<<>>))
        /\ hist' = Append(hist, Event("set", id, cell_id, StoredValue(cell_id), value, Ok(<<>>)))
        /\ UNCHANGED held /\ UNCHANGED codec_vars

\* cell._value = value, for a cell the sheet stores
AssignValue(cell, value) ==
    /\ heap' = [Collect(heap, cells, {held}) EXCEPT ![cell]._value = value]
    /\ ret' = Call("assign", cell, Ok(<<>>))
    /\ hist' = Append(hist, Event("set", cell, Spreadsheet_get_cell_id(cell, MaxDepth).val,
                                  heap[cell]._value, value, Ok(<<>>)))
    /\ UNCHANGED <<cells, held>> /\ UNCHANGED codec_vars

\* spreadsheet.render(padding): the lines printed
Render(padding) ==
    /\ ret' = Call("render", padding, Spreadsheet_render(padding))
    /\ heap' = Collect(heap, cells, {held})
    /\ UNCHANGED <<cells, held, hist>> /\ UNCHANGED codec_vars

(************************** the callers' inputs ******************************)
Letter(k) == <<OrdLowerA + k>>
IntAbove == 60      \* an int above the threshold of highlight
IntBelow == 1       \* an int below it

\* the literal of row i, column j (from 0): "a", 1, "c", ... all different
LiteralAt(i, j) ==
    IF (i + j) % 2 = 0 THEN StrValue(Letter(i * MaxCols + j)) ELSE IntValue(10 * i + j)

Deferred == CellElement(CallableValue("neighbour_value"), "render_noop", "left")

\* R rows of C columns, the last row cut to last columns; in the style
\* "deferred" the first cell of every row is a deferred value
GridOf(style, R, C, last) ==
    [i \in 1..R |-> [j \in 1..(IF i = R THEN last ELSE C) |->
        IF style = "deferred" /\ j = 1 THEN Deferred ELSE Literal(LiteralAt(i - 1, j - 1))]]

Grids(style) ==
    {GridOf(style, R, C, last) : R \in 1..MaxRows, C \in 1..MaxCols, last \in 1..MaxCols}

FillData == {g \in Grids("literals") \cup Grids("deferred") :
                \A i \in 1..Len(g) : Len(g[i]) <= Len(g[1]) \/ i = 1}

Coords == 0..MaxCoord
Positions == Coords \X Coords
AnyPositions == ((0 - 1)..MaxCoord) \X ((0 - 1)..MaxCoord)
Offsets == ((0 - 1)..1) \X ((0 - 1)..1)
\* rectangles with start <= stop, the empty ones included
Rects == {b \in Positions \X Positions : b[1][1] <= b[2][1] /\ b[1][2] <= b[2][2]}
\* rectangles anchored on the diagonal
Anchored == {b \in Rects : b[1][1] = b[1][2] /\ b[1][1] <= 1}
Live == (Stored(cells) \cup {held}) \ {0}
NewValues == {StrValue(Letter(23)), CallableValue("neighbour_value")}

(************************** Spec: lookups, shape, positions ******************)
Next ==
    \/ Return
    \/ \E data \in FillData : ret.op = "" /\ cells = <<>> /\ Fill(data)
    \/ \E value \in NewValues : ret.op = "" /\ Construct(value)
    \/ \E position \in Positions : ret.op = "" /\ GetItem(cell_id_from_position(position))
    \/ \E position \in AnyPositions : ret.op = "" /\ GetCellAtPosition(position)
    \/ ret.op = "" /\ GetNumRows
    \/ ret.op = "" /\ GetNumColumns
    \/ ret.op = "" /\ GetShape
    \/ ret.op = "" /\ GetRows
    \/ ret.op = "" /\ GetColumns
    \/ \E b \in Rects : ret.op = "" /\ GetCells(Selection_init(b[1], b[2], <<>>))
    \/ \E cell \in Live : ret.op = "" /\ GetPosition(cell)
    \/ \E cell \in Live, offset \in Offsets : ret.op = "" /\ GetRelativeNeighbour(cell, offset)

Spec == SheetInit /\ [][Next]_vars

(************************** SpecSelect: selections ***************************)
Selections ==
    {Selection_init(b[1], b[2], <<>>) : b \in Positions \X Positions}
    \cup {Selection_add(Selection_init(a[1], a[2], <<>>), Selection_init(b[1], b[2], <<>>)) :
            a \in Anchored, b \in Anchored}

SelectNext ==
    \/ Return
    \/ \E data \in Grids("literals") \cap FillData : ret.op = "" /\ cells = <<>> /\ Fill(data)
    \/ \E selection \in Selections : ret.op = "" /\ GetCells(selection)

SpecSelect == SheetInit /\ [][SelectNext]_vars

(************************** SpecValue: reads of deferred values **************)
Column1 == {cell_id_from_position(<<r, 1>>) : r \in 0..(MaxRows - 1)}
WrittenValue == StrValue(Letter(23))

ValueNext ==
    \/ Return
    \/ \E data \in Grids("deferred") \cap FillData : ret.op = "" /\ cells = <<>> /\ Fill(data)
    \/ \E cell \in Stored(cells) :
          ret.op = "" /\ Len(hist) < MaxEvents /\ heap[cell]._value.kind = "callable"
          /\ ReadValue(cell)
    \/ \E cell_id \in Column1 :
          ret.op = "" /\ Len(hist) < MaxEvents /\ SetItem(cell_id, WrittenValue)
    \/ \E cell_id \in Column1 :
          ret.op = "" /\ Len(hist) < MaxEvents /\ HasKey(cells, cell_id)
          /\ AssignValue(DictGet(cells, cell_id), WrittenValue)

SpecValue == SheetInit /\ [][ValueNext]_vars

(************************** SpecRender: rendering ****************************)
MaxPadding == 2
Texts2 == {<<>>, <<OrdSpace>>, Letter(0) \o Letter(1), <<OrdSpace, OrdSpace>>}
Alignments == {"left", "center", "right"}      \* class Alignment

\* a row of the rendered sheets: a highlighted text and the int beside it
RenderRows ==
    {<<CellElement(StrValue(t), "highlight", a), Literal(IntValue(n))>> :
        t \in Texts2, a \in Alignments, n \in {IntAbove, IntBelow}}

RenderData == UNION {[1..R -> RenderRows] : R \in 1..MaxRows}

RenderNext ==
    \/ Return
    \/ \E data \in RenderData : ret.op = "" /\ cells = <<>> /\ Fill(data)
    \/ \E padding \in 0..MaxPadding : ret.op = "" /\ Render(padding)

SpecRender == SheetInit /\ [][RenderNext]_vars

(************************** codec specification *****************************)
MinNum == 0 - 2

\* the characters of the texts: upper case, lower case, and others
TextChars == {OrdA, OrdA + 1, OrdA + 25, OrdLowerA, OrdLowerA + 1, OrdUnderscore}

RECURSIVE TextsOfLen(_)
TextsOfLen(n) ==
    IF n = 0 THEN {<<>>}
    ELSE {Append(s, c) : s \in TextsOfLen(n - 1), c \in TextChars}

Texts == UNION {TextsOfLen(n) : n \in 0..MaxLen}

Inputs ==
    [kind : {"number"}, n : MinNum..MaxNum]
    \cup [kind : {"position"}, row : 0..MaxRowNum, col : 0..MaxNum]
    \cup [kind : {"text"}, s : Texts]

CodecInit ==
    /\ input \in Inputs
    /\ enc = Unset
    /\ dec = Unset
    /\ cells = <<>> /\ heap = EmptyHeap /\ held = 0 /\ ret = NoCall /\ hist = <<>>

EncodeColumn ==
    /\ input.kind = "number" /\ enc = Unset
    /\ enc' = Ok(column_id_from_number(input.n))
    /\ UNCHANGED <<input, dec>> /\ UNCHANGED sheet_vars

DecodeColumn ==
    /\ input.kind = "number" /\ enc # Unset /\ dec = Unset
    /\ dec' = Ok(number_from_column_id(enc.val))
    /\ UNCHANGED <<input, enc>> /\ UNCHANGED sheet_vars

EncodePosition ==
    /\ input.kind = "position" /\ enc = Unset
    /\ enc' = Ok(cell_id_from_position(<<input.row, input.col>>))
    /\ UNCHANGED <<input, dec>> /\ UNCHANGED sheet_vars

DecodePosition ==
    /\ input.kind = "position" /\ enc # Unset /\ dec = Unset
    /\ dec' = position_from_cell_id(enc.val)
    /\ UNCHANGED <<input, enc>> /\ UNCHANGED sheet_vars

DecodeText ==
    /\ input.kind = "text" /\ dec = Unset
    /\ dec' = Ok(number_from_column_id(input.s))
    /\ UNCHANGED <<input, enc>> /\ UNCHANGED sheet_vars

CodecNext ==
    \/ EncodeColumn
    \/ DecodeColumn
    \/ EncodePosition
    \/ DecodePosition
    \/ DecodeText

SpecCodec == CodecInit /\ [][CodecNext]_vars

(************************** claims on the codec (SpecCodec) ******************)
\* C1: decoding an encoded address returns the address: for every column
\* number c >= 1, number_from_column_id(column_id_from_number(c)) = c, and for
\* every row r >= 0 and column c >= 1,
\* position_from_cell_id(cell_id_from_position((r, c))) = (r, c).
C1_RoundTrip ==
    /\ (input.kind = "number" /\ input.n >= 1 /\ dec.exc # "unset")
           => (dec.exc = "" /\ dec.val = input.n)
    /\ (input.kind = "position" /\ input.col >= 1 /\ dec.exc # "unset")
           => (dec.exc = "" /\ dec.val = <<input.row, input.col>>)

\* a two-digit row and a two-letter column went through both conversions
C1_Witness ==
    /\ input.kind = "position" /\ input.row = 10 /\ input.col = 28
    /\ enc.exc = "" /\ enc.val = <<OrdZero + 1, OrdZero, OrdUnderscore, OrdA, OrdA + 1>>
    /\ dec.exc = "" /\ dec.val = <<10, 28>>

\* the number a letter string denotes with the digits A = 1 .. Z = 26
RECURSIVE LettersValue(_, _)
LettersValue(s, k) ==
    IF k = 0 THEN 0 ELSE 26 * LettersValue(s, k - 1) + (s[k] - OrdA + 1)

\* C2: column_id_from_number(n) is the bijective base-26 letter string of n
\* for n >= 1 (letters A..Z as digits 1..26, most significant first, the last
\* letter being digit (n - 1) mod 26), with 1 -> "A", 26 -> "Z", 27 -> "AA",
\* 52 -> "AZ", 53 -> "BA"; for n <= 0 it is the empty string.
C2_ColumnLetters ==
    (input.kind = "number" /\ enc.exc # "unset") =>
        /\ enc.exc = ""
        /\ input.n <= 0 => enc.val = <<>>
        /\ input.n >= 1 =>
              /\ Len(enc.val) >= 1
              /\ \A i \in 1..Len(enc.val) : enc.val[i] >= OrdA /\ enc.val[i] <= OrdA + 25
              /\ LettersValue(enc.val, Len(enc.val)) = input.n
              /\ enc.val[Len(enc.val)] = OrdA + ((input.n - 1) % 26)
        /\ input.n = 1 => enc.val = <<OrdA>>
        /\ input.n = 26 => enc.val = <<OrdA + 25>>
        /\ input.n = 27 => enc.val = <<OrdA, OrdA>>
        /\ input.n = 52 => enc.val = <<OrdA, OrdA + 25>>
        /\ input.n = 53 => enc.val = <<OrdA + 1, OrdA>>

\* 53 was encoded, to "BA"
C2_Witness ==
    input.kind = "number" /\ input.n = 53 /\ enc.exc = "" /\ enc.val = <<OrdA + 1, OrdA>>

\* the fold that treats a lower-case letter as its upper-case form and skips
\* every character that is no letter
RECURSIVE CaseInsensitiveFold(_, _, _)
CaseInsensitiveFold(s, k, acc) ==
    IF k > Len(s) THEN acc
    ELSE IF s[k] >= OrdA /\ s[k] <= OrdA + 25
         THEN CaseInsensitiveFold(s, k + 1, acc * 26 + (s[k] - OrdA) + 1)
         ELSE IF s[k] >= OrdLowerA /\ s[k] <= OrdLowerA + 25
              THEN CaseInsensitiveFold(s, k + 1, acc * 26 + (s[k] - OrdLowerA) + 1)
              ELSE CaseInsensitiveFold(s, k + 1, acc)

\* C3: number_from_column_id folds the letters left to right as
\* acc = acc * 26 + (letterIndex + 1) without regard to case: a lower-case
\* letter counts as its upper-case form, and only characters outside A-Z / a-z
\* are ignored.
C3_CaseInsensitive ==
    (input.kind = "text" /\ dec.exc # "unset") =>
        (dec.exc = "" /\ dec.val = CaseInsensitiveFold(input.s, 1, 0))

(************************** claims on the sheet (Spec) ***********************)
\* a rectangular grid of literals, as passed to fill
IsLiteralGrid(data) ==
    /\ Len(data) >= 1 /\ Len(data[1]) >= 1
    /\ \A i \in 1..Len(data) :
          /\ Len(data[i]) = Len(data[1])
          /\ \A j \in 1..Len(data[i]) : ~data[i][j].is_cell

\* C4: after fill(data) on an empty Spreadsheet with a rectangular grid of
\* R >= 1 rows and C >= 1 columns of literals, get_shape() is (R, C),
\* get_rows()[i][j].value is data[i][j] and get_columns()[j][i].value is
\* data[i][j] for every i, j of the grid.
C4_FillShape ==
    (ret.op = "fill" /\ ret.pre = 0 /\ IsLiteralGrid(ret.args)) =>
        LET data == ret.args
            R == Len(data)
            C == Len(data[1])
            rows == Spreadsheet_get_rows
            columns == Spreadsheet_get_columns
        IN  /\ Spreadsheet_get_shape = Ok(<<R, C>>)
            /\ IsOk(rows) /\ Len(rows.val) = R
            /\ IsOk(columns) /\ Len(columns.val) = C
            /\ \A i \in 1..R : Len(rows.val[i]) = C
            /\ \A j \in 1..C : Len(columns.val[j]) = R
            /\ \A i \in 1..R : \A j \in 1..C :
                  /\ Cell_value(rows.val[i][j], MaxDepth) = Ok(data[i][j]._value)
                  /\ Cell_value(columns.val[j][i], MaxDepth) = Ok(data[i][j]._value)

\* a 2 x 2 grid of literals was filled in, and column 0 resolves to its
\* first and third literal
C4_Witness ==
    /\ ret.op = "fill" /\ ret.pre = 0 /\ IsLiteralGrid(ret.args)
    /\ Len(ret.args) = 2 /\ Len(ret.args[1]) = 2
    /\ Spreadsheet_get_shape = Ok(<<2, 2>>)
    /\ Cell_value(Spreadsheet_get_columns.val[1][1], MaxDepth) = Ok(LiteralAt(0, 0))
    /\ Cell_value(Spreadsheet_get_columns.val[1][2], MaxDepth) = Ok(LiteralAt(1, 0))

\* C6: get_num_rows(), get_num_columns() and get_shape() on a Spreadsheet
\* that holds no cell raise the explicit error of a guard on the empty store
\* (EmptyShapeUndefined), not the error of max() over an empty sequence.
C6_EmptyShapeGuarded ==
    (ret.op \in {"get_num_rows", "get_num_columns", "get_shape"} /\ ret.pre = 0)
        => ret.exc = "EmptyShapeUndefined"

\* the lookups, with the keys each one reads
ReadOps == {"getitem", "get_cell_at_position", "get_cells", "get_rows", "get_columns"}

\* the references a lookup returned, whatever the shape of its result
Returned(call) ==
    IF call.op \in {"getitem", "get_cell_at_position"} THEN {call.val}
    ELSE IF call.op = "get_cells" THEN call.val
    ELSE UNION {{call.val[i][j] : j \in 1..Len(call.val[i])} : i \in 1..Len(call.val)}

\* the shape inferred from the keys of a store: (max row + 1, max column + 1)
InferredShape(d) ==
    LET at(k) == position_from_cell_id(d[k].id).val
    IN  IF d = <<>> THEN <<>>
        ELSE <<SetMax({at(k)[1] : k \in 1..Len(d)}) + 1,
               SetMax({at(k)[2] : k \in 1..Len(d)}) + 1>>

\* C8: a read-miss never mutates the store: a lookup through
\* Spreadsheet[key], get_cell_at_position, get_cells, get_rows or get_columns
\* leaves the keys, the stored Cell objects, len(sheet) and the inferred
\* shape as they were, and what it returns for an absent key is a new empty
\* Cell (value None) that the sheet does not store.
C8_ReadMissFrame ==
    [][(ret.op = "" /\ ret'.op \in ReadOps) =>
          /\ cells' = cells
          /\ Len(cells') = Len(cells)
          /\ \A c \in Stored(cells) : c \in DOMAIN heap' /\ heap'[c] = heap[c]
          /\ InferredShape(cells') = InferredShape(cells)
          /\ ret'.exc = "" =>
                \A c \in Returned(ret') \ Stored(cells) :
                    /\ c \notin Stored(cells')
                    /\ heap'[c] = Placeholder
          /\ (ret'.op = "getitem" /\ ~HasKey(cells, ret'.args)) =>
                ret'.exc = "" /\ ret'.val \notin Stored(cells)
      ]_vars

\* an absent key of a sheet that holds cells was looked up
C8_Witness ==
    /\ ret.op = "getitem" /\ ~HasKey(cells, ret.args)
    /\ Len(cells) = 4 /\ ret.pre = 4
    /\ ret.val \notin Stored(cells) /\ heap[ret.val] = Placeholder

NotFound == "Exception: Unable to find cell"
OutOfBounds == {"Exception: Out of bounds for x", "Exception: Out of bounds for y"}

\* what C10 says of a call on cell with the result call, in the sheet d
PositionContract(d, cell, call, offset, h) ==
    LET at == {i \in 1..Len(d) : d[i].cell = cell}
        p == position_from_cell_id(d[CHOOSE i \in at : TRUE].id).val
        q == <<p[1] + offset[1], p[2] + offset[2]>>
    IN  /\ at = {} => call.exc = NotFound
        /\ (Cardinality(at) = 1 /\ call.op = "get_position") =>
              call.exc = "" /\ call.val = p
        /\ (Cardinality(at) = 1 /\ call.op = "get_relative_neighbour") =>
              IF q[1] < 0 \/ q[2] < 0 THEN call.exc \in OutOfBounds
              ELSE /\ call.exc = ""
                   /\ IF HasKey(d, cell_id_from_position(q))
                      THEN call.val = DictGet(d, cell_id_from_position(q))
                      ELSE call.val \notin Stored(d) /\ h[call.val] = Placeholder

\* C10: for a Cell stored under one key written by fill at (r, c),
\* get_position() is (r, c) and get_relative_neighbour((dr, dc)) is the
\* sheet's lookup of (r + dr, c + dc), failing with an out-of-bounds error
\* when r + dr < 0 or c + dc < 0; for any Cell the sheet does not store by
\* identity both fail with the not-found error; a failing call leaves the
\* store unchanged.
C10_PositionAndNeighbour ==
    [][/\ (ret.op = "" /\ ret'.op = "get_position") =>
             /\ PositionContract(cells, ret'.args, ret', <<0, 0>>, heap')
             /\ ret'.exc # "" => cells' = cells
       /\ (ret.op = "" /\ ret'.op = "get_relative_neighbour") =>
             /\ PositionContract(cells, ret'.args[1], ret', ret'.args[2], heap')
             /\ ret'.exc # "" => cells' = cells
      ]_vars

(************************** claims on selections (SpecSelect) ****************)
\* the positions of a bound's half-open rectangle
Rectangle(bound) ==
    (bound[1][1]..(bound[2][1] - 1)) \X (bound[1][2]..(bound[2][2] - 1))

\* the Cell objects the sheet stores at a position
StoredAt(p) ==
    {cells[k].cell : k \in {x \in 1..Len(cells) : position_from_cell_id(cells[x].id).val = p}}

\* the visits to absent positions, a position counted once per bound covering it
RECURSIVE AbsentVisits(_)
AbsentVisits(bounds) ==
    IF bounds = <<>> THEN 0
    ELSE Cardinality({p \in Rectangle(Head(bounds)) : StoredAt(p) = {}})
             + AbsentVisits(Tail(bounds))

\* C5: for a Selection whose bounds have non-negative coordinates, get_cells
\* visits the positions of each bound's half-open rectangle
\* [start.row, stop.row) x [start.column, stop.column) and returns, without
\* raising, a set by identity holding each stored Cell covered by a bound
\* once, plus one distinct new empty Cell per visit to an absent position.
C5_GetCells ==
    ret.op = "get_cells" =>
        LET covered == UNION {Rectangle(ret.args[k]) : k \in 1..Len(ret.args)}
            fresh == ret.val \ Stored(cells)
        IN  /\ ret.exc = ""
            /\ ret.val \cap Stored(cells) = UNION {StoredAt(p) : p \in covered}
            /\ Cardinality(fresh) = AbsentVisits(ret.args)
            /\ \A c \in fresh : heap[c] = Placeholder

\* two overlapping bounds covered an absent position, each visit giving its
\* own placeholder, beside a stored cell
C5_Witness ==
    /\ ret.op = "get_cells" /\ ret.exc = "" /\ Len(ret.args) = 2
    /\ \E p \in Rectangle(ret.args[1]) \cap Rectangle(ret.args[2]) : StoredAt(p) = {}
    /\ ret.val \cap Stored(cells) # {}
    /\ Cardinality(ret.val \ Stored(cells)) >= 2
    /\ Cardinality(ret.val \ Stored(cells)) >
           Cardinality({p \in Rectangle(ret.args[1]) \cup Rectangle(ret.args[2]) :
                           StoredAt(p) = {}})

(************************** claims on deferred values (SpecValue) ************)
\* the key of the neighbour at offset (0, 1) of a stored cell
NeighbourKey(cell) ==
    LET p == position_from_cell_id(cells[CHOOSE k \in 1..Len(cells) : cells[k].cell = cell].id).val
    IN  cell_id_from_position(<<p[1], p[2] + 1>>)

\* a read of a deferred cell, a write of a different literal to its
\* neighbour at (0, 1), and a read of the cell again, at i, i + 1, i + 2 of hist
ReadWriteRead(i) ==
    /\ hist[i].op = "value" /\ hist[i + 1].op = "set" /\ hist[i + 2].op = "value"
    /\ hist[i].cell = hist[i + 2].cell
    /\ hist[i].cell \in Stored(cells)
    /\ heap[hist[i].cell]._value = CallableValue("neighbour_value")
    /\ hist[i + 1].key = NeighbourKey(hist[i].cell)
    /\ hist[i + 1].old.kind # "callable"
    /\ hist[i + 1].new.kind \in {"str", "int"}
    /\ hist[i + 1].old # hist[i + 1].new

\* C7: the value of a deferred cell is never cached: every read of Cell.value
\* calls the stored computation again on the current sheet, so reading a cell
\* whose computation returns its neighbour's value at offset (0, 1), changing
\* the neighbour's stored value to a different literal, and reading again
\* yields the old neighbour value first and the new one second.
C7_NoCaching ==
    \A i \in 1..(Len(hist) - 2) :
        ReadWriteRead(i) =>
            /\ hist[i].result = Ok(hist[i + 1].old)
            /\ hist[i + 2].result = Ok(hist[i + 1].new)

\* read, write of another literal to the neighbour, read: two different results
C7_Witness ==
    /\ Len(hist) = 3 /\ ReadWriteRead(1)
    /\ hist[2].old.kind \in {"str", "int"}
    /\ hist[1].result.exc = "" /\ hist[3].result.exc = ""
    /\ hist[1].result.val # hist[3].result.val
    /\ hist[3].result.val = WrittenValue

(************************** claims on rendering (SpecRender) *****************)
\* the segment C9 describes: the rendered string in the place of the display
\* string, the pad of the alignment around it, and the padding run
ExpectedSegment(cell, width, padding) ==
    LET display == Cell_str(cell, MaxDepth).val
        rendered == Cell_render(cell, MaxDepth).val
        pad == width - Len(display)
        alignment == Obj(cell).alignment
        before == IF alignment = "left" THEN 0
                  ELSE IF alignment = "right" THEN pad ELSE pad \div 2
    IN  Spaces(before) \o rendered \o Spaces(pad - before) \o Spaces(padding)

\* C9: in Spreadsheet.render, for every cell and every display string, the
\* empty one and those made of spaces included, the emitted segment is the
\* display string padded per the cell's alignment to the width of its column
\* (the longest display string of the column), with that one occurrence of
\* the display string replaced by the rendered string, followed by padding
\* spaces; the pad characters are never altered.
C9_SegmentsPadded ==
    (ret.op = "render" /\ ret.exc = "") =>
        LET rows == Spreadsheet_get_rows.val
            columns == Spreadsheet_get_columns.val
            width(j) == SetMax({Len(Cell_str(columns[j][i], MaxDepth).val) :
                                   i \in 1..Len(columns[j])})
        IN  /\ Len(ret.val) = Len(rows)
            /\ \A i \in 1..Len(rows) :
                  ret.val[i] = Concat([j \in 1..Len(rows[i]) |->
                                         ExpectedSegment(rows[i][j], width(j), ret.args)])


====
